---- MODULE Spec2Model ----
(***************************************************************************)
(* Jrai-Viet dictionary (tra-tu-nhanh-jv): the App component's dictionary  *)
(* store (load / save effects, add, reset, import, search render) and the  *)
(* WordCard speech playback controller (handlePlay), for the three         *)
(* revisions of App.tsx kept in the repository:                            *)
(*   "v32"  src/App.tsx 1-396 and src/unnamed/part_002                     *)
(*   "v15"  src/App.tsx 399-842                                            *)
(*   "v14"  src/unnamed/part_001                                           *)
(* Strings are sequences of characters; a character is named in ASCII.     *)
(***************************************************************************)
EXTENDS Integers, Sequences, FiniteSets, TLC

\* ------------------------------------------------------------- bounds
\* WordCard instances mounted in the result list.
NumCards == 2
\* handlePlay invocations of one card that may be suspended at an await.
MaxCalls == 2
\* FileReader reads that may be outstanding at a time.
MaxReads == 1
\* AudioContext objects one owner may construct.
MaxCtx == 2

Revisions == {"v14", "v15", "v32"}
Cards == 1..NumCards

\* ------------------------------------------------------------- strings
\* "sp" is U+0020, "a_acute" U+00E1, "A_breve" U+0102, "d_stroke" U+0111,
\* "acute" U+0301 and "breve" U+0306 (both inside U+0300..U+036F).
CombiningMarks == {"acute", "breve"}

\* String.prototype.normalize("NFD") on one character.
NFDChar(ch) ==
    CASE ch = "a_acute" -> <<"a", "acute">>
      [] ch = "A_breve" -> <<"A", "breve">>
      [] OTHER -> <<ch>>

RECURSIVE NFD(_)
NFD(s) == IF s = <<>> THEN <<>> ELSE NFDChar(Head(s)) \o NFD(Tail(s))

\* StripMarks removing nothing.
StripNoMarks(s) == s

\* .replace(/[U+0300-U+036F]/g, "")
StripMarks(s) == SelectSeq(s, LAMBDA ch : ch \notin CombiningMarks)

LowerChar(ch) ==
    CASE ch = "A" -> "a"
      [] ch = "B" -> "b"
      [] ch = "M" -> "m"
      [] OTHER -> ch

\* .toLowerCase()
ToLowerCase(s) == [i \in 1..Len(s) |-> LowerChar(s[i])]

RECURSIVE TrimStart(_)
TrimStart(s) ==
    IF s # <<>> /\ Head(s) = "sp" THEN TrimStart(Tail(s)) ELSE s

RECURSIVE TrimEnd(_)
TrimEnd(s) ==
    IF s # <<>> /\ s[Len(s)] = "sp" THEN TrimEnd(SubSeq(s, 1, Len(s) - 1)) ELSE s

\* .trim()
Trim(s) == TrimEnd(TrimStart(s))

\* const normalize = (str) =>
\*   str.normalize("NFD").replace(/[U+0300-U+036F]/g, "").toLowerCase().trim()
normalize(str) == Trim(ToLowerCase(StripMarks(NFD(str))))

\* The value of a property an object does not have.
Undefined == <<"undefined">>

\* ------------------------------------------------------------- JSON values
\* A JSON value as the store can hold one: kind is "null", "array" or
\* "object"; m maps each own key (Object.keys) to the value under it
\* (Object.values).  A value under a key is read as a WordEntry: its jrai
\* and viet properties, Undefined when the record has none.
EmptyMap == [k \in {} |-> [jrai |-> Undefined, viet |-> Undefined]]
JNull == [kind |-> "null", m |-> EmptyMap]
Entry(j, v) == [jrai |-> j, viet |-> v]

\* { ...prev, [key]: entry }
SpreadWith(prev, key, entry) ==
    [kind |-> "object",
     m |-> [k \in (DOMAIN prev.m) \cup {key} |->
              IF k = key THEN entry ELSE prev.m[k]]]

\* Props writing the jrai property only.
PropsWithoutViet(e) ==
    IF e.jrai = Undefined THEN <<>> ELSE <<(<<"jrai", e.jrai>>)>>

\* The properties JSON.stringify writes for a record, in their order: the
\* own properties whose value is defined, as <<name, value>>.
Props(e) ==
    (IF e.jrai = Undefined THEN <<>> ELSE <<(<<"jrai", e.jrai>>)>>)
      \o (IF e.viet = Undefined THEN <<>> ELSE <<(<<"viet", e.viet>>)>>)

\* The keys of a value in the order JSON.stringify enumerates them.
RECURSIVE KeySeq(_)
KeySeq(S) ==
    IF S = {} THEN <<>>
    ELSE LET k == CHOOSE x \in S : TRUE IN <<k>> \o KeySeq(S \ {k})

\* The document JSON.stringify writes: null, or the members of the array
\* or object one after the other, each <<key, properties>>.
Serialize(value) ==
    LET ks == KeySeq(DOMAIN value.m) IN
      [kind |-> value.kind,
       members |-> [i \in 1..Len(ks) |-> <<ks[i], Props(value.m[ks[i]])>>]]

\* The value of the property name among props (the last one of that name),
\* Undefined when there is none.
PropValue(props, name) ==
    LET at == {i \in 1..Len(props) : props[i][1] = name} IN
      IF at = {} THEN Undefined
      ELSE props[CHOOSE i \in at : \A j \in at : j <= i][2]

\* The value JSON.parse builds from a document: one key per member name,
\* holding the record of the last member of that name.
Deserialize(doc) ==
    LET keys == {doc.members[i][1] : i \in 1..Len(doc.members)}
        lastAt(key) ==
            CHOOSE i \in 1..Len(doc.members) :
              /\ doc.members[i][1] = key
              /\ \A j \in 1..Len(doc.members) : doc.members[j][1] = key => j <= i
    IN  [kind |-> doc.kind,
         m |-> [key \in keys |->
                  Entry(PropValue(doc.members[lastAt(key)][2], "jrai"),
                        PropValue(doc.members[lastAt(key)][2], "viet"))]]

\* A text: what a file or the storage key holds.  k is "json" for a text
\* JSON.parse accepts (val is the document it holds, indent its layout),
\* "garbage" for one it rejects, "empty" for the empty string.
JSON_stringify(value, indent) ==
    [k |-> "json", indent |-> indent, val |-> Serialize(value)]
GarbageText == [k |-> "garbage", indent |-> 0, val |-> Serialize(JNull)]
EmptyText == [k |-> "empty", indent |-> 0, val |-> Serialize(JNull)]
ParseThrows(text) == text.k # "json"
JSON_parse(text) == Deserialize(text.val)

\* ------------------------------------------------------------- data
S_Aba == <<"A", "b", "a">>
S_Abreve_ba == <<"A_breve", "b", "a">>
S_ba_acute == <<"b", "a_acute">>
S_sp == <<"sp">>
S_aba == <<"a", "b", "a">>
S_ama == <<"a", "m", "a">>
S_Ama == <<"A", "m", "a">>
S_ba == <<"b", "a">>
S_ma == <<"m", "a">>
S_cha == <<"c", "h", "a">>
S_x == <<"x">>
S_0 == <<"0">>
S_acute == <<"acute">>
S_constructor == <<"c", "o", "n", "s", "t", "r", "u", "c", "t", "o", "r">>

\* The compiled-in default dictionary (./constants, DEFAULT_DICTIONARY).
DEFAULT_DICTIONARY ==
    [kind |-> "object",
     m |-> [k \in {S_aba, S_ama} |->
              IF k = S_aba THEN Entry(S_Aba, S_ba) ELSE Entry(S_Ama, S_cha)]]

\* What the user may type into #new-jrai and #new-viet.
JraiInputs == {<<>>, S_Abreve_ba, S_ba_acute, S_sp}
VietInputs == {<<>>, S_ma}

\* What the user may type into the search box.
QueryInputs == {<<>>, S_sp, S_ba, S_acute}

\* The files the user may pick for import: not JSON; null; an array of one
\* record without jrai/viet; a mapping to a record without jrai/viet; a
\* pretty-printed dictionary of one entry.
File_garbage == GarbageText
File_null == JSON_stringify(JNull, 0)
File_array ==
    JSON_stringify([kind |-> "array",
                    m |-> [k \in {S_0} |-> Entry(Undefined, Undefined)]], 0)
File_badrec ==
    JSON_stringify([kind |-> "object",
                    m |-> [k \in {S_x} |-> Entry(Undefined, Undefined)]], 0)
File_good ==
    JSON_stringify([kind |-> "object",
                    m |-> [k \in {S_ba} |-> Entry(S_ba, S_ma)]], 2)
Files == {File_garbage, File_null, File_array, File_badrec, File_good}

\* What the storage key may hold when the application first starts: no
\* item, an item that does not parse, an empty item.
InitialStorage == {<<>>, <<GarbageText>>, <<EmptyText>>}

\* ------------------------------------------------------------- state
VARIABLES
    rev,          \* the revision of App.tsx that runs
    app,          \* "unmounted", "running" or "crashed" (a render threw)
    dictionary,   \* useState<Dictionary>
    storage,      \* localStorage under the revision's key: <<>> or <<text>>
    searchQuery,  \* useState('')
    reads,        \* FileReader.readAsText calls whose onload is pending
    playing,      \* per WordCard: useState(false)
    calls,        \* per WordCard: the handlePlay invocations suspended at an await
    ctx,          \* per owner: the AudioContext it holds
    last,         \* the handler that ran last and its inputs
    notice,       \* the alert() the last handler raised, "none" if none
    activeTab,    \* useState<TabType>(TabType.SEARCH)
    quizWords,    \* useState<QuizItem[]>([])
    quizKeys,     \* shuffled.slice(0, 6) of the refreshQuiz that set quizWords
    isTestingMode, \* useState(false) of v32; not used by v14 and v15
    download,     \* the file the export link saved last, with the value it
                  \* was written from: <<>> or <<[text, entries]>>
    loadingAi,    \* useState(false) of v14 and v15
    aiExplanation, \* useState<string | null>(null) of v14 and v15: <<>> for
                  \* null, <<[word, text]>> for `**${word}**: ${text}`
    explains      \* the handleExplain invocations suspended at their await

vars == <<rev, app, dictionary, storage, searchQuery, reads,
          playing, calls, ctx, last, notice,
          activeTab, quizWords, quizKeys, isTestingMode, download,
          loadingAi, aiExplanation, explains>>
explainVars == <<loadingAi, aiExplanation, explains>>
quizVars == <<activeTab, quizWords, quizKeys, isTestingMode>>
dictVars == <<dictionary, storage, searchQuery, reads>>
audioVars == <<playing, calls, ctx>>

Last(op, card, j, v, ok) == [op |-> op, card |-> card, j |-> j, v |-> v, ok |-> ok]

\* The tab buttons: onClick={() => { setActiveTab(tab); setAiExplanation(null); }}.
\* A handler of another tab is reached through the button of that tab.
TabOnClick ==
    /\ aiExplanation' = IF activeTab' # activeTab THEN <<>> ELSE aiExplanation
    /\ UNCHANGED <<loadingAi, explains>>

\* ------------------------------------------------------------- quiz draw
\* shuffled.slice(0, 6)
BatchSize == 6

Sides == {"jrai", "viet"}

\* [...keys].sort(() => 0.5 - Math.random()): every order of the keys.
RECURSIVE Shuffled(_)
Shuffled(keys) ==
    IF keys = {} THEN {<<>>}
    ELSE UNION {{<<k>> \o p : p \in Shuffled(keys \ {k})} : k \in keys}

\* Slice taking one element more.
SliceOneMore(s, n) == SubSeq(s, 1, IF Len(s) < n + 1 THEN Len(s) ELSE n + 1)

\* .slice(0, n)
Slice(s, n) == SubSeq(s, 1, IF Len(s) < n THEN Len(s) ELSE n)

\* The questionSide refreshQuiz gives an item: Math.random() > 0.5 ?
\* 'jrai' : 'viet' in v32, 'jrai' in v14 and v15.
DrawSides(r) == IF r = "v32" THEN Sides ELSE {"jrai"}

\* QuizItem drawn in testing mode.
QuizItemTesting(entry, side) ==
    [jrai |-> entry.jrai, viet |-> entry.viet, questionSide |-> side,
     userInput |-> <<>>, status |-> "none", isTesting |-> TRUE]

\* { ...dictionary[k], questionSide, userInput: '', status: 'none',
\*   isTesting: false }
QuizItem(entry, side) ==
    [jrai |-> entry.jrai, viet |-> entry.viet, questionSide |-> side,
     userInput |-> <<>>, status |-> "none", isTesting |-> FALSE]

\* refreshQuiz over the dictionary d (Object.keys(d) does not throw).
refreshQuiz(d) ==
    \E ks \in {Slice(p, BatchSize) : p \in Shuffled(DOMAIN d.m)} :
      \E side \in [1..Len(ks) -> DrawSides(rev)] :
        /\ quizKeys' = ks
        /\ quizWords' = [i \in 1..Len(ks) |-> QuizItem(d.m[ks[i]], side[i])]
        /\ isTestingMode' = FALSE

\* ------------------------------------------------------------- render
\* Object.keys(x) / Object.values(x) throw a TypeError on null.
ObjectKeysThrows(d) == d.kind = "null"

\* normalize(x) throws a TypeError when x is undefined.
NormalizeThrows(x) == x = Undefined

\* w => normalize(w.jrai) === q || normalize(w.viet) === q, for one w.
MatchThrows(w, q) ==
    \/ NormalizeThrows(w.jrai)
    \/ /\ normalize(w.jrai) # q
       /\ NormalizeThrows(w.viet)

\* Computing filteredResults in the body of App.
FilterThrows(d, query) ==
    /\ Trim(query) # <<>>
    /\ \/ ObjectKeysThrows(d)
       \/ \E k \in DOMAIN d.m : MatchThrows(d.m[k], normalize(query))

\* String.prototype.includes
Includes(s, t) ==
    \E i \in 0..(Len(s) - Len(t)) : SubSeq(s, i + 1, i + Len(t)) = t

\* w => normalize(w.jrai) === normalize(q) || normalize(w.viet) === normalize(q)
ExactMatch(w, q) == normalize(w.jrai) = q \/ normalize(w.viet) = q

\* w => normalize(w.jrai).includes(normalize(q)) ||
\*      normalize(w.viet).includes(normalize(q))
FuzzyMatch(w, q) ==
    Includes(normalize(w.jrai), q) \/ Includes(normalize(w.viet), q)

\* filteredResults, as the set of the entries it holds, when computing it
\* does not throw: [] for a query whose trim() is empty; the entries that
\* match exactly; in v32, when none does, the entries that match fuzzily.
getFilteredResults(r, d, query) ==
    IF Trim(query) = <<>> THEN {}
    ELSE LET q == normalize(query)
             exact == {k \in DOMAIN d.m : ExactMatch(d.m[k], q)}
             fuzzy == {k \in DOMAIN d.m : FuzzyMatch(d.m[k], q)}
         IN  {d.m[k] : k \in IF r = "v32" /\ exact = {} THEN fuzzy ELSE exact}

\* {Object.keys(dictionary).length} in the header of v14 and v15.
HeaderThrows(r, d) == r \in {"v14", "v15"} /\ ObjectKeysThrows(d)

\* Whether rendering App with this state throws.
RenderThrows(r, d, query) == HeaderThrows(r, d) \/ FilterThrows(d, query)

\* SaveEffect reading a stale dictionary: the one of the first render.
SaveEffectStale(d) == <<JSON_stringify(DEFAULT_DICTIONARY, 0)>>

\* useEffect(() => localStorage.setItem(KEY, JSON.stringify(dictionary)), [dictionary])
SaveEffect(d) == <<JSON_stringify(d, 0)>>

\* setDictionary(d), the render it causes and, when that render commits,
\* the save effect.
SetDictionary(d) ==
    /\ dictionary' = d
    /\ IF RenderThrows(rev, d, searchQuery)
       THEN app' = "crashed" /\ storage' = storage
       ELSE app' = app /\ storage' = SaveEffect(d)

\* ------------------------------------------------------------- dictionary store
\* LoadEffect without its try/catch: a parse failure leaves the effect.
LoadEffectNoCatch(saved) ==
    IF saved = <<>> \/ saved[1].k = "empty"
    THEN [set |-> FALSE, d |-> JNull, threw |-> FALSE]
    ELSE IF ParseThrows(saved[1])
         THEN [set |-> FALSE, d |-> JNull, threw |-> TRUE]
         ELSE [set |-> TRUE, d |-> JSON_parse(saved[1]), threw |-> FALSE]

\* The load effect: const saved = localStorage.getItem(KEY);
\* if (saved) { try { setDictionary(JSON.parse(saved)); } catch (e) {} }
\* set: whether setDictionary was called, d: with what, threw: whether an
\* exception left the effect.
LoadEffect(saved) ==
    IF saved = <<>> \/ saved[1].k = "empty"
    THEN [set |-> FALSE, d |-> JNull, threw |-> FALSE]
    ELSE IF ParseThrows(saved[1])
         THEN [set |-> FALSE, d |-> JNull, threw |-> FALSE]
         ELSE [set |-> TRUE, d |-> JSON_parse(saved[1]), threw |-> FALSE]

\* Startup: the first render with useState(DEFAULT_DICTIONARY), then the
\* load effect and the save effect of that render (which writes the default
\* dictionary), then the render with the loaded dictionary and its save
\* effect.
Mount ==
    /\ app = "unmounted"
    /\ LET ld == LoadEffect(storage) IN
         IF ld.threw
         THEN /\ app' = "crashed"
              /\ dictionary' = DEFAULT_DICTIONARY
              /\ UNCHANGED storage
         ELSE IF ld.set
              THEN /\ dictionary' = ld.d
                   /\ IF RenderThrows(rev, ld.d, searchQuery)
                      THEN /\ app' = "crashed"
                           /\ storage' = SaveEffect(DEFAULT_DICTIONARY)
                      ELSE /\ app' = "running"
                           /\ storage' = SaveEffect(ld.d)
              ELSE /\ app' = "running"
                   /\ dictionary' = DEFAULT_DICTIONARY
                   /\ storage' = SaveEffect(DEFAULT_DICTIONARY)
    /\ last' = Last("load", 0, <<>>, <<>>, TRUE)
    /\ notice' = "none"
    /\ UNCHANGED <<rev, explainVars, searchQuery, reads, audioVars, quizVars, download>>

\* AddWord keyed by the headword as typed.
AddWordRawKey(prev, j, v) == SpreadWith(prev, j, Entry(j, v))

\* prev => ({...prev, [normalize(j)]: {jrai: j, viet: v}})
AddWord(prev, j, v) == SpreadWith(prev, normalize(j), Entry(j, v))

\* The notice of the add button when a field is empty.
AddRejectedNotice(r) == IF r = "v14" THEN "fillAll" ELSE "none"

\* The add button of the MANAGE tab (the user opens the tab and clicks):
\* if (j && v) { setDictionary(...); alert(...) }
\* (v14: else alert("Vui long dien du thong tin.")).
Add(j, v) ==
    /\ app = "running"
    /\ IF j # <<>> /\ v # <<>>
       THEN /\ SetDictionary(AddWord(dictionary, j, v))
            /\ notice' = "added"
       ELSE /\ notice' = AddRejectedNotice(rev)
            /\ UNCHANGED <<app, dictionary, storage>>
    /\ last' = Last("add", 0, j, v, j # <<>> /\ v # <<>>)
    /\ activeTab' = "MANAGE"
    /\ TabOnClick
    /\ UNCHANGED <<rev, searchQuery, reads, audioVars,
                   quizWords, quizKeys, isTestingMode, download>>

\* Reset without its confirm(): the default is restored on every click.
ResetUnconfirmed(confirmed) ==
    /\ app = "running"
    /\ SetDictionary(DEFAULT_DICTIONARY)
    /\ last' = Last("reset", 0, <<>>, <<>>, confirmed)
    /\ notice' = "none"
    /\ activeTab' = "DATA"
    /\ TabOnClick
    /\ UNCHANGED <<rev, searchQuery, reads, audioVars,
                   quizWords, quizKeys, isTestingMode, download>>

\* The reset button of the DATA tab: confirm(...) && setDictionary(DEFAULT_DICTIONARY)
Reset(confirmed) ==
    /\ app = "running"
    /\ IF confirmed
       THEN SetDictionary(DEFAULT_DICTIONARY)
       ELSE UNCHANGED <<app, dictionary, storage>>
    /\ last' = Last("reset", 0, <<>>, <<>>, confirmed)
    /\ notice' = "none"
    /\ activeTab' = "DATA"
    /\ TabOnClick
    /\ UNCHANGED <<rev, searchQuery, reads, audioVars,
                   quizWords, quizKeys, isTestingMode, download>>

\* The file input of the DATA tab of v14 and v15: reader.readAsText(file)
ImportPick(file) ==
    /\ app = "running"
    /\ rev \in {"v14", "v15"}
    /\ Len(reads) < MaxReads
    /\ reads' = Append(reads, file)
    /\ last' = Last("pick", 0, <<>>, <<>>, TRUE)
    /\ notice' = "none"
    /\ activeTab' = "DATA"
    /\ TabOnClick
    /\ UNCHANGED <<rev, app, dictionary, storage, searchQuery, audioVars,
                   quizWords, quizKeys, isTestingMode, download>>

\* ImportHandler storing before it knows the text parses: a text that does
\* not parse empties the dictionary.
ImportHandlerClears(text) ==
    IF ParseThrows(text)
    THEN [set |-> TRUE, d |-> [kind |-> "object", m |-> EmptyMap],
          notice |-> "invalidFile"]
    ELSE [set |-> TRUE, d |-> JSON_parse(text), notice |-> "imported"]

\* reader.onload: try { const json = JSON.parse(text); setDictionary(json);
\* alert(done) } catch (err) { alert(invalid) }
\* set: whether setDictionary was called, d: with what, notice: the alert.
ImportHandler(text) ==
    IF ParseThrows(text)
    THEN [set |-> FALSE, d |-> JNull, notice |-> "invalidFile"]
    ELSE [set |-> TRUE, d |-> JSON_parse(text), notice |-> "imported"]

RemoveAt(seq, i) == SubSeq(seq, 1, i - 1) \o SubSeq(seq, i + 1, Len(seq))

\* reader.onload, whichever tab is open by then; a dictionary set while
\* the LEARN tab is open makes a new refreshQuiz, whose effect re-draws.
ImportOnload(i) ==
    /\ app = "running"
    /\ i \in 1..Len(reads)
    /\ LET h == ImportHandler(reads[i]) IN
         /\ IF h.set
            THEN /\ SetDictionary(h.d)
                 /\ IF activeTab = "LEARN" /\ ~RenderThrows(rev, h.d, searchQuery)
                    THEN refreshQuiz(h.d)
                    ELSE UNCHANGED <<quizWords, quizKeys, isTestingMode>>
            ELSE UNCHANGED <<app, dictionary, storage,
                             quizWords, quizKeys, isTestingMode>>
         /\ notice' = h.notice
         /\ last' = Last("import", 0, <<>>, <<>>, h.set)
    /\ reads' = RemoveAt(reads, i)
    /\ UNCHANGED <<rev, explainVars, searchQuery, audioVars, activeTab, download>>

\* The admin secret, and what the user may type into the security key box
\* of v14 and v15: the secret, nothing, the secret in lower case.
S_JRAI2025 == <<"J", "R", "A", "I", "2", "0", "2", "5">>
S_jrai2025 == <<"j", "r", "a", "i", "2", "0", "2", "5">>
SecurityKeys == {S_JRAI2025, <<>>, S_jrai2025}

\* The property names every object inherits from Object.prototype with a
\* truthy value, among the keys normalize can produce.
ObjectPrototypeKeys == {S_constructor}

\* DEFAULT_DICTIONARY[key] is truthy: an own entry or an inherited property.
DefaultHas(key) ==
    key \in DOMAIN DEFAULT_DICTIONARY.m \/ key \in ObjectPrototypeKeys

\* Object.fromEntries(Object.entries(dictionary)
\*   .filter(([key]) => !DEFAULT_DICTIONARY[key]))
customWords(d) ==
    [kind |-> "object",
     m |-> [k \in {x \in DOMAIN d.m : ~DefaultHas(x)} |-> d.m[k]]]

\* The value the export serializes: the dictionary in v14 and v15, the
\* words that are not in the default dictionary in v32.
ExportedValue(r, d) == IF r = "v32" THEN customWords(d) ELSE d

\* JSON.stringify(dictionary) in v15, JSON.stringify(..., null, 2) in v14
\* and v32.
ExportIndent(r) == IF r = "v15" THEN 0 ELSE 2

\* ExportRefused without the comparison of the key.
ExportNeverRefused(r, d, key) == FALSE

\* Whether the export handler returns before it writes: a wrong security
\* key in v14 and v15, no word of the user's in v32.
ExportRefused(r, d, key) ==
    IF r = "v32" THEN DOMAIN customWords(d).m = {} ELSE key # S_JRAI2025

\* The export button of the DATA tab; the browser saves the text of the
\* data URL as a file.
Export(key) ==
    /\ app = "running"
    /\ IF ExportRefused(rev, dictionary, key)
       THEN /\ notice' = (IF rev = "v32" THEN "nothingToExport" ELSE "wrongKey")
            /\ UNCHANGED download
       ELSE /\ notice' = "none"
            /\ download' =
                 <<[text |-> JSON_stringify(ExportedValue(rev, dictionary),
                                            ExportIndent(rev)),
                    entries |-> ExportedValue(rev, dictionary)]>>
    /\ last' = Last("export", 0, key, <<>>, ~ExportRefused(rev, dictionary, key))
    /\ activeTab' = "DATA"
    /\ TabOnClick
    /\ UNCHANGED <<rev, app, dictVars, audioVars,
                   quizWords, quizKeys, isTestingMode>>

\* The search box of the SEARCH tab: onChange={(e) => setSearchQuery(e.target.value)}, and
\* the render it causes.
SetSearchQuery(q) ==
    /\ app = "running"
    /\ searchQuery' = q
    /\ app' = IF RenderThrows(rev, dictionary, q) THEN "crashed" ELSE app
    /\ last' = Last("search", 0, q, <<>>, TRUE)
    /\ notice' = "none"
    /\ activeTab' = "SEARCH"
    /\ TabOnClick
    /\ UNCHANGED <<rev, dictionary, storage, reads, audioVars,
                   quizWords, quizKeys, isTestingMode, download>>

\* ------------------------------------------------------------- quiz
\* What the user may type into the answer box of a quiz item.
AnswerInputs == {S_ba_acute, S_Abreve_ba, S_ma}

\* The number of items of a batch that carry a grade.  A draw records it
\* of the batch it replaces.
GradedCount(items) == Cardinality({i \in 1..Len(items) : items[i].status # "none"})

\* OpenLearnTab without the effect that draws the batch.
OpenLearnTabNoEffect ==
    /\ app = "running"
    /\ activeTab # "LEARN"
    /\ activeTab' = "LEARN"
    /\ last' = Last("draw", GradedCount(quizWords), <<activeTab>>, <<>>, TRUE)
    /\ notice' = "none"
    /\ TabOnClick
    /\ UNCHANGED <<rev, app, dictVars, audioVars, download,
                   quizWords, quizKeys, isTestingMode>>

\* The LEARN tab button: setActiveTab(TabType.LEARN), and the effect
\* if (activeTab === TabType.LEARN) refreshQuiz() of the render it causes.
\* The draw records the tab the user comes from.
OpenLearnTab ==
    /\ app = "running"
    /\ activeTab # "LEARN"
    /\ activeTab' = "LEARN"
    /\ IF ObjectKeysThrows(dictionary)
       THEN /\ app' = "crashed"
            /\ UNCHANGED <<quizWords, quizKeys, isTestingMode>>
       ELSE /\ app' = app
            /\ refreshQuiz(dictionary)
    /\ last' = Last("draw", GradedCount(quizWords), <<activeTab>>, <<>>, TRUE)
    /\ notice' = "none"
    /\ TabOnClick
    /\ UNCHANGED <<rev, dictVars, audioVars, download>>

\* The button onClick={refreshQuiz} of the LEARN tab.
RefreshClick ==
    /\ app = "running"
    /\ activeTab = "LEARN"
    /\ refreshQuiz(dictionary)
    /\ last' = Last("draw", GradedCount(quizWords), <<>>, <<>>, TRUE)
    /\ notice' = "none"
    /\ UNCHANGED <<rev, explainVars, app, dictVars, audioVars, activeTab, download>>

\* The questionSide startTest / startTesting gives an item: the one it has
\* in v32 ({...it, isTesting: true, status: 'none', userInput: ''}),
\* Math.random() > 0.5 ? 'jrai' : 'viet' in v14 and v15.
TestSides(r, item) == IF r = "v32" THEN {item.questionSide} ELSE Sides

\* The start button; v32 renders it only while !isTestingMode.
StartTest ==
    /\ app = "running"
    /\ activeTab = "LEARN"
    /\ rev = "v32" => ~isTestingMode
    /\ \E side \in [1..Len(quizWords) -> Sides] :
         /\ \A i \in 1..Len(quizWords) : side[i] \in TestSides(rev, quizWords[i])
         /\ quizWords' = [i \in 1..Len(quizWords) |->
                            [quizWords[i] EXCEPT !.isTesting = TRUE,
                                                 !.questionSide = side[i],
                                                 !.status = "none",
                                                 !.userInput = <<>>]]
    /\ isTestingMode' = (rev = "v32")
    /\ last' = Last("start", 0, <<>>, <<>>, TRUE)
    /\ notice' = "none"
    /\ UNCHANGED <<rev, explainVars, app, dictVars, audioVars, activeTab, quizKeys, download>>

\* Whether the answer box of an item is rendered: in the test view of v32,
\* for a testing item in v14 and v15.
AnswerBoxShown(r, mode, item) == IF r = "v32" THEN mode ELSE item.isTesting

\* TypeAnswer without status = 'none'.
TypeAnswerKeepsStatus(i, text) ==
    /\ app = "running"
    /\ activeTab = "LEARN"
    /\ i \in 1..Len(quizWords)
    /\ AnswerBoxShown(rev, isTestingMode, quizWords[i])
    /\ text # quizWords[i].userInput
    /\ quizWords' = [quizWords EXCEPT ![i].userInput = text]
    /\ last' = Last("type", i, text, <<quizWords[i].status>>, TRUE)
    /\ notice' = "none"
    /\ UNCHANGED <<rev, explainVars, app, dictVars, audioVars,
                   activeTab, quizKeys, isTestingMode, download>>

\* The answer box onChange: userInput = e.target.value, status = 'none'.
\* The step records the status the item had.
TypeAnswer(i, text) ==
    /\ app = "running"
    /\ activeTab = "LEARN"
    /\ i \in 1..Len(quizWords)
    /\ AnswerBoxShown(rev, isTestingMode, quizWords[i])
    /\ text # quizWords[i].userInput
    /\ quizWords' = [quizWords EXCEPT ![i].userInput = text, ![i].status = "none"]
    /\ last' = Last("type", i, text, <<quizWords[i].status>>, TRUE)
    /\ notice' = "none"
    /\ UNCHANGED <<rev, explainVars, app, dictVars, audioVars,
                   activeTab, quizKeys, isTestingMode, download>>

\* const target = item.questionSide === 'jrai' ? item.viet : item.jrai
Target(item) == IF item.questionSide = "jrai" THEN item.viet ELSE item.jrai

\* The items the grading touches: all of them in v32 (checkResults),
\* those with isTesting in v14 and v15 (if (!item.isTesting) return item).
Graded(r, item) == r = "v32" \/ item.isTesting

\* GradeItem accepting every answer.
GradeItemAlwaysCorrect(item) == [item EXCEPT !.status = "correct"]

\* { ...item, status: normalize(item.userInput) === normalize(target)
\*                      ? 'correct' : 'wrong' }
GradeItem(item) ==
    [item EXCEPT !.status =
        IF normalize(item.userInput) = normalize(Target(item))
        THEN "correct" ELSE "wrong"]

\* prev.map(item => ...) of checkResults / handleCheckAll / handleCheckResults
checkResults(r, items) ==
    [i \in 1..Len(items) |->
        IF Graded(r, items[i]) THEN GradeItem(items[i]) ELSE items[i]]

\* normalize(target) throws a TypeError when the item has no such property.
CheckThrows(r, items) ==
    \E i \in 1..Len(items) :
      Graded(r, items[i]) /\ NormalizeThrows(Target(items[i]))

\* The submit button; v32 renders it only while isTestingMode.  An
\* exception of the updater leaves the render that runs it.
Check ==
    /\ app = "running"
    /\ activeTab = "LEARN"
    /\ rev = "v32" => isTestingMode
    /\ IF CheckThrows(rev, quizWords)
       THEN /\ app' = "crashed"
            /\ UNCHANGED quizWords
       ELSE /\ app' = app
            /\ quizWords' = checkResults(rev, quizWords)
    /\ last' = Last("check", 0, <<>>, <<>>, ~CheckThrows(rev, quizWords))
    /\ notice' = "none"
    /\ UNCHANGED <<rev, explainVars, dictVars, audioVars,
                   activeTab, quizKeys, isTestingMode, download>>

\* ------------------------------------------------------------- speech synthesis client
\* What getSpeech returns for "no audio", and the value of a missing
\* response.candidates?.[0]?.content?.parts?.[0]?.inlineData?.data.
Null == "<null>"
NoData == "<undefined>"

\* What the service call inside getSpeech may do: reject, find no API key
\* (getAiClient of part_000 returns null), or answer with a data string
\* (none, the empty string, a blank string, a string that is not base64,
\* the base64 of the bytes 00 40, of the bytes 00 40 00 and of the bytes
\* 00 40 00 80).
ServiceOutcomes ==
    {[kind |-> "throws", data |-> NoData], [kind |-> "nokey", data |-> NoData]}
    \cup [kind : {"response"},
          data : {NoData, "", " ", "!", "AEA=", "AEAA", "AEAAgA=="}]

\* try { ...; return base64Audio || null; } catch (error) { return null; }
getSpeech(outcome) ==
    IF outcome.kind \in {"throws", "nokey"} THEN Null
    ELSE IF outcome.data \in {NoData, ""} THEN Null
    ELSE outcome.data

\* window.atob on the strings above.
AtobThrows(base64) == base64 = "!"
Atob(base64) ==
    CASE base64 = "AEA=" -> <<0, 64>>
      [] base64 = "AEAA" -> <<0, 64, 0>>
      [] base64 = "AEAAgA==" -> <<0, 64, 0, 128>>
      [] OTHER -> <<>>

\* decodeBase64(base64): the bytes of window.atob(base64).
decodeBase64(base64) == Atob(base64)

\* pcmToBuffer(data, ctx) rejects when new Int16Array(data.buffer) throws (an
\* odd number of bytes) or ctx.createBuffer(1, 0, 24000) throws (no sample).
PcmThrows(bytes) == Len(bytes) % 2 # 0 \/ Len(bytes) \div 2 = 0

\* Element k of new Int16Array(data.buffer): the bytes 2k and 2k+1 (from 0)
\* read as a little-endian two's complement number.
Int16At(bytes, k) ==
    LET u == bytes[2 * k - 1] + 256 * bytes[2 * k]
    IN IF u >= 32768 THEN u - 65536 ELSE u

\* The channel data of the buffer pcmToBuffer returns: channelData[i] =
\* dataInt16[i] / 32768.0, a fraction a Float32 holds exactly.
pcmToBuffer(bytes) ==
    [k \in 1..(Len(bytes) \div 2) |-> [num |-> Int16At(bytes, k), den |-> 32768]]

\* ------------------------------------------------------------- playback controller
\* Owner 0 is globalAudioCtx of v14; owner c is audioCtxRef of card c.
Owners == 0..NumCards
Owner(r, c) == IF r = "v14" THEN 0 ELSE c

NoContext == [made |-> 0, state |-> "none", resuming |-> FALSE]

\* if (!current) current = new AudioContext({ sampleRate: 24000 });
\* birth is the state the platform gives a new context.
CreateIfMissing(cx, birth) ==
    IF cx.state = "none"
    THEN [made |-> cx.made + 1, state |-> birth, resuming |-> FALSE]
    ELSE cx

\* v15, v32: if (ctx.state === 'suspended') await ctx.resume();
\* v14 (getAudioContext): if (state === 'suspended') globalAudioCtx.resume();
AwaitsResume(r, cx) == r # "v14" /\ cx.state = "suspended"
CallsResume(cx) == cx.state = "suspended"

\* Accepts without its guard: every click starts an invocation.
AcceptsAlways(isPlaying) == TRUE

\* if (playing) return;
Accepts(isPlaying) == ~isPlaying

\* NoAudio without the check of the payload.
NoAudioNever(base64) == FALSE

\* if (!base64) ...
NoAudio(base64) == base64 \in {Null, ""}

\* The alert of the no-audio branch: v14 alerts, v32 returns silently, v15
\* throws to its own catch, which logs to the console.
NoAudioNotice(r) == IF r = "v14" THEN "noAudio" ELSE "none"

Call(pc, inst, base64) == [pc |-> pc, inst |-> inst, b64 |-> base64]

\* Finish without setPlaying(false).
FinishKeepsPlaying(c, i) ==
    /\ calls' = [calls EXCEPT ![c] = RemoveAt(@, i)]
    /\ UNCHANGED playing

\* An invocation of handlePlay ends with setPlaying(false).
Finish(c, i) ==
    /\ calls' = [calls EXCEPT ![c] = RemoveAt(@, i)]
    /\ playing' = [playing EXCEPT ![c] = FALSE]

\* Busy with one flag for all the cards.
BusyOfAnyCard(c) == \E d \in Cards : playing[d]

\* The playing a click on card c reads: the useState of its own WordCard.
Busy(c) == playing[c]

\* A click on a speaker button of card c: handlePlay up to its first await.
PlayClick(c) ==
    /\ app = "running"
    /\ IF ~Accepts(Busy(c))
       THEN /\ last' = Last("play", c, <<>>, <<>>, FALSE)
            /\ UNCHANGED audioVars
       ELSE \E birth \in {"running", "suspended"} :
              LET o == Owner(rev, c)
                  cx == CreateIfMissing(ctx[o], birth)
              IN /\ Len(calls[c]) < MaxCalls
                 /\ cx.made <= MaxCtx
                 /\ playing' = [playing EXCEPT ![c] = TRUE]
                 /\ ctx' = [ctx EXCEPT ![o] =
                              [cx EXCEPT !.resuming = cx.resuming \/ CallsResume(cx)]]
                 /\ calls' = [calls EXCEPT ![c] =
                                Append(@, Call(IF AwaitsResume(rev, cx)
                                               THEN "resuming" ELSE "requesting",
                                               cx.made, Null))]
                 /\ last' = Last("play", c, <<>>, <<>>, TRUE)
    /\ notice' = "none"
    /\ UNCHANGED <<rev, explainVars, app, dictVars, quizVars, download>>

\* The promise of ctx.resume() settles.  In v15 and v32 the invocations of
\* the owning card that await it go on to getSpeech, or to the catch block
\* when it rejected.
ResumeSettled(o, ok) ==
    /\ app = "running"
    /\ ctx[o].resuming
    /\ ctx' = [ctx EXCEPT ![o] =
                 [@ EXCEPT !.resuming = FALSE,
                           !.state = IF ok THEN "running" ELSE @]]
    /\ IF o \in Cards /\ \E i \in 1..Len(calls[o]) : calls[o][i].pc = "resuming"
       THEN IF ok
            THEN /\ calls' = [calls EXCEPT ![o] =
                                [i \in 1..Len(@) |->
                                   IF @[i].pc = "resuming"
                                   THEN [@[i] EXCEPT !.pc = "requesting"]
                                   ELSE @[i]]]
                 /\ UNCHANGED playing
            ELSE /\ calls' = [calls EXCEPT ![o] =
                                SelectSeq(@, LAMBDA call : call.pc # "resuming")]
                 /\ playing' = [playing EXCEPT ![o] = FALSE]
       ELSE UNCHANGED <<calls, playing>>
    /\ last' = Last("resume", o, <<>>, <<>>, ok)
    /\ notice' = "none"
    /\ UNCHANGED <<rev, explainVars, app, dictVars, quizVars, download>>

\* await getSpeech(text, isViet) returns: the no-audio branch, or
\* decodeBase64 and the call of pcmToBuffer.
SpeechResponse(c, i, outcome) ==
    /\ app = "running"
    /\ i \in 1..Len(calls[c])
    /\ calls[c][i].pc = "requesting"
    /\ LET base64 == getSpeech(outcome) IN
         IF NoAudio(base64)
         THEN /\ Finish(c, i)
              /\ notice' = NoAudioNotice(rev)
              /\ last' = Last("speech", c, <<>>, <<>>, FALSE)
         ELSE /\ IF AtobThrows(base64)
                 THEN Finish(c, i)
                 ELSE /\ calls' = [calls EXCEPT ![c][i] =
                                     Call("decoding", @.inst, base64)]
                      /\ UNCHANGED playing
              /\ notice' = "none"
              /\ last' = Last("speech", c, <<>>, <<>>, TRUE)
    /\ UNCHANGED <<rev, explainVars, app, dictVars, quizVars, download, ctx>>

\* await pcmToBuffer(bytes, ctx) settles: the catch block, or
\* createBufferSource, connect, onended and source.start(0), which the
\* platform lets pass (started) or fail into the catch block.
DecodeSettled(c, i, started) ==
    /\ app = "running"
    /\ i \in 1..Len(calls[c])
    /\ calls[c][i].pc = "decoding"
    /\ LET bytes == decodeBase64(calls[c][i].b64) IN
         IF PcmThrows(bytes)
         THEN /\ started
              /\ Finish(c, i)
              /\ last' = Last("decoded", c, bytes, <<>>, FALSE)
         ELSE IF ~started
         THEN /\ Finish(c, i)
              /\ last' = Last("startFailed", c, bytes, pcmToBuffer(bytes), FALSE)
         ELSE /\ calls' = [calls EXCEPT ![c][i].pc = "playing"]
              /\ UNCHANGED playing
              /\ last' = Last("decoded", c, bytes, pcmToBuffer(bytes), TRUE)
    /\ notice' = "none"
    /\ UNCHANGED <<rev, explainVars, app, dictVars, quizVars, download, ctx>>

\* source.onended = () => setPlaying(false)
Ended(c, i) ==
    /\ app = "running"
    /\ i \in 1..Len(calls[c])
    /\ calls[c][i].pc = "playing"
    /\ Finish(c, i)
    /\ last' = Last("ended", c, <<>>, <<>>, TRUE)
    /\ notice' = "none"
    /\ UNCHANGED <<rev, explainVars, app, dictVars, quizVars, download, ctx>>

\* The page is reloaded: the component tree is gone and the storage stays.
\* The dictionary of the new page is built by Mount.
Restart ==
    /\ app \in {"running", "crashed"}
    /\ app' = "unmounted"
    /\ UNCHANGED dictionary
    /\ searchQuery' = <<>>
    /\ reads' = <<>>
    /\ playing' = [c \in Cards |-> FALSE]
    /\ calls' = [c \in Cards |-> <<>>]
    /\ ctx' = [o \in Owners |-> NoContext]
    /\ last' = Last("restart", 0, <<>>, <<>>, TRUE)
    /\ notice' = "none"
    /\ activeTab' = "SEARCH"
    /\ quizWords' = <<>>
    /\ quizKeys' = <<>>
    /\ isTestingMode' = FALSE
    /\ loadingAi' = FALSE
    /\ aiExplanation' = <<>>
    /\ explains' = <<>>
    /\ UNCHANGED <<rev, storage, download>>

\* ------------------------------------------------------------- explanations
\* The handleExplain invocations that may be suspended at a time.
MaxExplains == 2

\* What the service call inside explainWord may do: answer, reject, or
\* fail before the request when getAi() throws.
ExplainOutcomes == {"resolved", "rejected", "noClient"}

\* response.text of an answer, the sentence of the catch block, and the
\* mark of a call that threw.
ServiceText == "response.text"
Fallback == "Không thể lấy giải thích từ AI vào lúc này."
Threw == "threw"

\* explainWord without its try / catch.
explainWordNoCatch(outcome) == IF outcome = "resolved" THEN ServiceText ELSE Threw

\* try { ...; return response.text } catch (error) { ...; return fallback }
explainWord(outcome) == IF outcome = "resolved" THEN ServiceText ELSE Fallback

\* The search queries under which the explanations are asked for.
ExplainQueries == {S_ba, S_cha}

\* The SEARCH tab button.
OpenSearchTab ==
    /\ app = "running"
    /\ activeTab' = "SEARCH"
    /\ aiExplanation' = <<>>
    /\ last' = Last("tab", 0, <<>>, <<>>, TRUE)
    /\ notice' = "none"
    /\ UNCHANGED <<rev, app, dictVars, audioVars, quizWords, quizKeys,
                   isTestingMode, download, loadingAi, explains>>

\* handleExplain(word) up to its await, from the button of a WordCard of
\* the search results: setLoadingAi(true); setAiExplanation(null);
\* explainWord(word.jrai, word.viet).  newest marks the invocation made last.
handleExplain(word) ==
    /\ app = "running"
    /\ rev \in {"v14", "v15"}
    /\ activeTab = "SEARCH"
    /\ word \in getFilteredResults(rev, dictionary, searchQuery)
    /\ Len(explains) < MaxExplains
    /\ loadingAi' = TRUE
    /\ aiExplanation' = <<>>
    /\ explains' = Append([i \in 1..Len(explains) |->
                              [explains[i] EXCEPT !.newest = FALSE]],
                          [word |-> word.jrai, newest |-> TRUE])
    /\ last' = Last("explain", 0, word.jrai, <<>>, TRUE)
    /\ notice' = "none"
    /\ UNCHANGED <<rev, app, dictVars, audioVars, quizVars, download>>

\* handleExplain after its await, whichever tab is open by then:
\* setAiExplanation(`**${word.jrai}**: ${text}`); setLoadingAi(false).
\* An exception of explainWord would leave the handler at the await.
ExplainSettled(i, outcome) ==
    /\ app = "running"
    /\ i \in 1..Len(explains)
    /\ LET text == explainWord(outcome) IN
         /\ IF text = Threw
            THEN UNCHANGED <<aiExplanation, loadingAi>>
            ELSE /\ aiExplanation' = <<[word |-> explains[i].word, text |-> text]>>
                 /\ loadingAi' = FALSE
         /\ last' = Last("explained", i, explains[i].word, <<outcome>>, text # Threw)
    /\ explains' = RemoveAt(explains, i)
    /\ notice' = "none"
    /\ UNCHANGED <<rev, app, dictVars, audioVars, quizVars, download>>

\* The close button of the explanation panel: setAiExplanation(null).  v15
\* renders the panel while (aiExplanation || loadingAi) and the button
\* while !loadingAi; v14 renders them while aiExplanation.
CloseShown(r, explanation, loading) ==
    /\ explanation # <<>>
    /\ r = "v15" => ~loading

CloseExplanation ==
    /\ app = "running"
    /\ rev \in {"v14", "v15"}
    /\ activeTab = "SEARCH"
    /\ CloseShown(rev, aiExplanation, loadingAi)
    /\ aiExplanation' = <<>>
    /\ last' = Last("close", 0, <<>>, <<>>, TRUE)
    /\ notice' = "none"
    /\ UNCHANGED <<rev, app, dictVars, audioVars, quizVars, download,
                   loadingAi, explains>>

\* ------------------------------------------------------------- specifications
Init ==
    /\ rev \in Revisions
    /\ app = "unmounted"
    /\ dictionary = DEFAULT_DICTIONARY
    /\ storage \in InitialStorage
    /\ searchQuery = <<>>
    /\ reads = <<>>
    /\ playing = [c \in Cards |-> FALSE]
    /\ calls = [c \in Cards |-> <<>>]
    /\ ctx = [o \in Owners |-> NoContext]
    /\ last = Last("init", 0, <<>>, <<>>, TRUE)
    /\ notice = "none"
    /\ activeTab = "SEARCH"
    /\ quizWords = <<>>
    /\ quizKeys = <<>>
    /\ isTestingMode = FALSE
    /\ download = <<>>
    /\ loadingAi = FALSE
    /\ aiExplanation = <<>>
    /\ explains = <<>>

DictNext ==
    \/ Mount
    \/ Restart
    \/ \E j \in JraiInputs, v \in VietInputs : Add(j, v)
    \/ \E confirmed \in BOOLEAN : Reset(confirmed)
    \/ \E file \in Files : ImportPick(file)
    \/ \E i \in 1..MaxReads : ImportOnload(i)
    \/ \E q \in QueryInputs : SetSearchQuery(q)

AudioNext ==
    \/ Mount
    \/ \E c \in Cards : PlayClick(c)
    \/ \E o \in Owners, ok \in BOOLEAN : ResumeSettled(o, ok)
    \/ \E c \in Cards, i \in 1..MaxCalls, outcome \in ServiceOutcomes :
         SpeechResponse(c, i, outcome)
    \/ \E c \in Cards, i \in 1..MaxCalls, started \in BOOLEAN :
         DecodeSettled(c, i, started)
    \/ \E c \in Cards, i \in 1..MaxCalls : Ended(c, i)

QuizNext ==
    \/ Mount
    \/ \E file \in Files : ImportPick(file)
    \/ \E i \in 1..MaxReads : ImportOnload(i)
    \/ OpenLearnTab
    \/ RefreshClick
    \/ StartTest
    \/ \E i \in 1..BatchSize, text \in AnswerInputs : TypeAnswer(i, text)
    \/ Check

ExportNext ==
    \/ Mount
    \/ \E j \in JraiInputs \cup {S_constructor}, v \in VietInputs : Add(j, v)
    \/ \E key \in SecurityKeys : Export(key)
    \/ \E file \in {File_garbage} \cup {download[i].text : i \in 1..Len(download)} :
         ImportPick(file)
    \/ \E i \in 1..MaxReads : ImportOnload(i)

ExplainNext ==
    \/ Mount
    \/ \E q \in ExplainQueries : SetSearchQuery(q)
    \/ \E word \in getFilteredResults(rev, dictionary, searchQuery) :
         handleExplain(word)
    \/ \E i \in 1..MaxExplains, outcome \in ExplainOutcomes :
         ExplainSettled(i, outcome)
    \/ CloseExplanation
    \/ OpenLearnTab
    \/ OpenSearchTab

Next == DictNext \/ AudioNext \/ QuizNext \/ ExportNext \/ ExplainNext

Spec == Init /\ [][Next]_vars
DictSpec == Init /\ [][DictNext]_vars
AudioSpec == Init /\ [][AudioNext]_vars
QuizSpec == Init /\ [][QuizNext]_vars
ExportSpec == Init /\ [][ExportNext]_vars
ExplainSpec == Init /\ [][ExplainNext]_vars

\* The dictionaries refreshQuiz is applied to: without entry, the default
\* one, and one of BatchSize + 1 entries.
EmptyDictionary == [kind |-> "object", m |-> EmptyMap]
BigKeys == {S_aba, S_ama, S_ba, S_ma, S_cha, S_x, S_0}
BigDictionary == [kind |-> "object", m |-> [k \in BigKeys |-> Entry(k, S_ma)]]
DrawDictionaries == {EmptyDictionary, DEFAULT_DICTIONARY, BigDictionary}

\* The application after a startup that loaded one of these dictionaries
\* from the storage.
DrawInit ==
    /\ rev \in Revisions
    /\ app = "running"
    /\ dictionary \in DrawDictionaries
    /\ storage = SaveEffect(dictionary)
    /\ searchQuery = <<>>
    /\ reads = <<>>
    /\ playing = [c \in Cards |-> FALSE]
    /\ calls = [c \in Cards |-> <<>>]
    /\ ctx = [o \in Owners |-> NoContext]
    /\ last = Last("load", 0, <<>>, <<>>, TRUE)
    /\ notice = "none"
    /\ activeTab = "SEARCH"
    /\ quizWords = <<>>
    /\ quizKeys = <<>>
    /\ isTestingMode = FALSE
    /\ download = <<>>
    /\ loadingAi = FALSE
    /\ aiExplanation = <<>>
    /\ explains = <<>>

DrawNext == OpenLearnTab

DrawSpec == DrawInit /\ [][DrawNext]_vars

\* The platform settles every promise handlePlay awaits and delivers the
\* ended event of a started source.
AudioFairness ==
    /\ WF_vars(Mount)
    /\ \A o \in Owners : WF_vars(\E ok \in BOOLEAN : ResumeSettled(o, ok))
    /\ \A c \in Cards :
         /\ WF_vars(\E i \in 1..MaxCalls, outcome \in ServiceOutcomes :
                      SpeechResponse(c, i, outcome))
         /\ WF_vars(\E i \in 1..MaxCalls, started \in BOOLEAN :
                      DecodeSettled(c, i, started))
         /\ WF_vars(\E i \in 1..MaxCalls : Ended(c, i))

AudioLive == AudioSpec /\ AudioFairness

\* ------------------------------------------------------------- playback claims
\* The phase of card c in the terms of the specification.
Phase(c) ==
    IF calls[c] = <<>> THEN "IDLE"
    ELSE CASE calls[c][1].pc \in {"resuming", "requesting"} -> "REQUESTING"
           [] calls[c][1].pc = "decoding" -> "DECODING"
           [] OTHER -> "PLAYING"

\* C1: single-flight playback per WordCard.  At most one handlePlay
\* invocation (getSpeech request or playback) of a card is in flight at any
\* time, and a click on a card whose playing flag is set is dropped: it
\* starts no request and changes nothing of the playback state.
C1_SingleFlight ==
    /\ [](\A c \in Cards : Len(calls[c]) <= 1)
    /\ [][\A c \in Cards :
            (last'.op = "play" /\ last'.card = c /\ playing[c])
              => (~last'.ok /\ UNCHANGED audioVars)]_vars

\* A click was dropped while the card's getSpeech request was outstanding.
C1_Witness ==
    /\ last.op = "play"
    /\ ~last.ok
    /\ playing[last.card]
    /\ Len(calls[last.card]) = 1
    /\ calls[last.card][1].pc = "requesting"

\* C2: every accepted play request eventually returns the card to IDLE
\* (playing = false), given that the platform settles the awaited promises
\* and delivers the ended event of a started source; and a card leaves
\* PLAYING only through the ended notification, which clears playing.
C2_ReturnsToIdle ==
    /\ \A c \in Cards : playing[c] ~> ~playing[c]
    /\ [][\A c \in Cards :
            (Phase(c) = "PLAYING" /\ Phase(c)' # "PLAYING")
              => (last'.op = "ended" /\ last'.card = c /\ ~playing'[c])]_vars

\* A card is back to IDLE through the ended notification.
C2_Witness ==
    /\ last.op = "ended"
    /\ ~playing[last.card]
    /\ calls[last.card] = <<>>

\* C3: when the synthesis client yields no audio data, handlePlay aborts
\* without decoding or starting playback, returns the card to IDLE and
\* surfaces a user-visible notice.
C3_NoAudioNotice ==
    (last.op = "speech" /\ ~last.ok)
      => /\ calls[last.card] = <<>>
         /\ ~playing[last.card]
         /\ notice = "noAudio"

\* The steps between phases that keep the order IDLE, REQUESTING, DECODING,
\* PLAYING, IDLE (an aborted request or decoding returns to IDLE).
PhaseSteps ==
    {<<"IDLE", "REQUESTING">>, <<"REQUESTING", "DECODING">>,
     <<"DECODING", "PLAYING">>, <<"PLAYING", "IDLE">>,
     <<"REQUESTING", "IDLE">>, <<"DECODING", "IDLE">>}

C5_ContextReady ==
    /\ \A o \in Owners : ctx[o].made <= 1
    /\ \A c \in Cards : \A i \in 1..Len(calls[c]) : calls[c][i].inst = 1
    /\ (app = "unmounted" /\ last.op = "init")
         => \A o \in Owners : ctx[o].state = "none"
    /\ (last.op = "decoded" /\ last.ok)
         => ctx[Owner(rev, last.card)].state # "suspended"

\* ------------------------------------------------------------- dictionary claims
\* C6: after any sequence of add, reset and import, once the state change
\* has been rendered and its effects have run, the document under the
\* storage key is exactly JSON.stringify of the in-memory dictionary; and
\* the dictionary changes through no operation other than load, add, reset
\* and import.
C6_StorageMirrorsDictionary ==
    /\ [](app = "running" => storage = <<JSON_stringify(dictionary, 0)>>)
    /\ [][dictionary' # dictionary
            => last'.op \in {"load", "add", "reset", "import"}]_vars

\* An import replaced the dictionary and the storage holds its serialization.
C6_Witness ==
    /\ last.op = "import"
    /\ last.ok
    /\ app = "running"
    /\ dictionary = JSON_parse(File_good)
    /\ storage = <<JSON_stringify(dictionary, 0)>>

C8_Import ==
    [][last'.op = "import" =>
         \E i \in 1..Len(reads) :
           /\ reads' = RemoveAt(reads, i)
           /\ IF ParseThrows(reads[i])
              THEN /\ notice' = "invalidFile"
                   /\ dictionary' = dictionary
                   /\ storage' = storage
              ELSE dictionary' = JSON_parse(reads[i])]_vars

\* A file that does not parse was rejected while the dictionary held a
\* word the user added.
C8_Witness ==
    /\ last.op = "import"
    /\ ~last.ok
    /\ notice = "invalidFile"
    /\ dictionary # DEFAULT_DICTIONARY
    /\ storage = <<JSON_stringify(dictionary, 0)>>

\* C9: no failure is fatal: after any sequence of user operations,
\* imports of any file and restarts, no render raises an unrecovered
\* exception.
C9_NeverCrashes == app # "crashed"

\* C10: add(j, v) with both fields non-empty stores {jrai: j, viet: v}
\* under the key normalize(j), replacing whatever was under that key, and
\* leaves every other key and entry unchanged.
C10_AddFrame ==
    [][(last'.op = "add" /\ last'.ok) =>
         LET key == normalize(last'.j) IN
           /\ DOMAIN dictionary'.m = (DOMAIN dictionary.m) \cup {key}
           /\ dictionary'.m[key] = Entry(last'.j, last'.v)
           /\ \A k \in (DOMAIN dictionary.m) \ {key} :
                dictionary'.m[k] = dictionary.m[k]]_vars

\* "A-breve ba" was added over the default entry "Aba" under the key "aba",
\* and the other default entry is as it was.
C10_Witness ==
    /\ last.op = "add"
    /\ last.ok
    /\ last.j = S_Abreve_ba
    /\ DOMAIN dictionary.m = {S_aba, S_ama}
    /\ dictionary.m[S_aba] = Entry(S_Abreve_ba, S_ma)
    /\ dictionary.m[S_ama] = DEFAULT_DICTIONARY.m[S_ama]

\* C11: in every reachable state the dictionary is a mapping in which each
\* key equals normalize of the headword (jrai) of the entry stored under
\* it, so that no two entries share a normalized headword.
C11_KeysNormalized ==
    /\ dictionary.kind = "object"
    /\ \A k \in DOMAIN dictionary.m :
         /\ dictionary.m[k].jrai # Undefined
         /\ k = normalize(dictionary.m[k].jrai)

\* C12: reset changes the dictionary only after the user confirms.  When
\* the confirmation is declined the dictionary and the persisted document
\* are unchanged; when it is accepted the dictionary is exactly the
\* compiled-in default, whatever was added or overwritten before.
C12_ResetConfirmed ==
    [][last'.op = "reset" =>
         IF last'.ok
         THEN dictionary' = DEFAULT_DICTIONARY
         ELSE dictionary' = dictionary /\ storage' = storage]_vars

\* A reset was declined while the dictionary held a word the user added,
\* and the word and its persisted copy are still there.
C12_Witness ==
    /\ last.op = "reset"
    /\ ~last.ok
    /\ app = "running"
    /\ dictionary # DEFAULT_DICTIONARY
    /\ storage = <<JSON_stringify(dictionary, 0)>>

\* ------------------------------------------------------------- search claims
\* C13: for every query that normalizes to the empty string (whitespace
\* and/or combining marks only), the search shows no result, whatever the
\* dictionary holds.
C13_EmptyQueryNoResult ==
    (app = "running" /\ normalize(searchQuery) = <<>>)
      => getFilteredResults(rev, dictionary, searchQuery) = {}

\* C14: an entry of the dictionary is among the results of the search for
\* its headword and of the search for normalize of its headword.
C14_EntryFound ==
    (app = "running" /\ dictionary.kind = "object")
      => \A k \in DOMAIN dictionary.m :
           LET e == dictionary.m[k] IN
             (e.jrai # Undefined /\ searchQuery \in {e.jrai, normalize(e.jrai)})
               => e \in getFilteredResults(rev, dictionary, searchQuery)

\* ------------------------------------------------------------- quiz claims
\* Whether the answer of an item equals, after normalization, the value on
\* the side opposite its questionSide.
AnswerMatches(item) == normalize(item.userInput) = normalize(Target(item))

\* C15 as stated: in every reachable state of a quiz batch, an item's
\* status is CORRECT if and only if normalize(userInput) equals normalize
\* of the value on the side opposite its questionSide.
C15_StatusIffMatch ==
    \A i \in 1..Len(quizWords) :
      quizWords[i].status = "correct" <=> AnswerMatches(quizWords[i])

\* C15 amended: in every reachable state of a quiz batch, an item's status
\* is CORRECT only if normalize(userInput) equals normalize of the value
\* on the side opposite its questionSide, and WRONG only if it does not;
\* an item that was not graded since it was drawn, started or edited has
\* status NONE whatever its input.
C15_StatusSound ==
    \A i \in 1..Len(quizWords) :
      /\ quizWords[i].status = "correct" => AnswerMatches(quizWords[i])
      /\ quizWords[i].status = "wrong" => ~AnswerMatches(quizWords[i])

\* The grading marked an answer CORRECT that differs from the expected
\* value as typed and equals it after normalization, next to a WRONG one.
C15_Witness ==
    /\ last.op = "check"
    /\ \E i \in 1..Len(quizWords) :
         /\ quizWords[i].status = "correct"
         /\ quizWords[i].userInput # Target(quizWords[i])
    /\ \E i \in 1..Len(quizWords) : quizWords[i].status = "wrong"

\* C16: grade sets, for each item in testing mode, status to CORRECT when
\* normalize(userInput) equals normalize of the value on the untested side
\* and to WRONG otherwise, and changes nothing else of the item; an item
\* that is not in testing mode is left as it is.
C16_Grade ==
    [][last'.op = "check" =>
         /\ Len(quizWords') = Len(quizWords)
         /\ \A i \in 1..Len(quizWords) :
              quizWords'[i] =
                IF quizWords[i].isTesting
                THEN [quizWords[i] EXCEPT !.status =
                        IF AnswerMatches(quizWords[i]) THEN "correct" ELSE "wrong"]
                ELSE quizWords[i]]_vars

\* What startTest makes of a batch when it gives item i the side side[i].
Started(items, side) ==
    [i \in 1..Len(items) |->
        [items[i] EXCEPT !.isTesting = TRUE, !.questionSide = side[i],
                         !.status = "none", !.userInput = <<>>]]

\* C17: startTest, applied to any batch, chooses at that moment and
\* independently for each item which side is the question, so that every
\* combination of sides over the batch is a possible outcome, and it
\* leaves every item with isTesting = true, status NONE and an empty
\* userInput, its headword and gloss unchanged.
C17_StartTest ==
    /\ []((app = "running" /\ activeTab = "LEARN" /\ ~isTestingMode)
            => \A side \in [1..Len(quizWords) -> Sides] :
                 ENABLED (StartTest /\ quizWords' = Started(quizWords, side)))
    /\ [][last'.op = "start"
            => \E side \in [1..Len(quizWords) -> Sides] :
                 quizWords' = Started(quizWords, side)]_vars

\* min(a, b)
Min(a, b) == IF a < b THEN a ELSE b

\* C18: drawBatch on a dictionary of k keys yields exactly min(6, k)
\* items, each a copy of the entry under a key of that dictionary, and no
\* key is drawn twice (so that all entries are drawn when k <= 6).
C18_DrawBatch ==
    [][last'.op = "draw" =>
         LET k == Cardinality(DOMAIN dictionary.m) IN
           /\ Len(quizWords') = Min(BatchSize, k)
           /\ Len(quizKeys') = Len(quizWords')
           /\ \A i \in 1..Len(quizKeys') :
                /\ quizKeys'[i] \in DOMAIN dictionary.m
                /\ quizWords'[i].jrai = dictionary.m[quizKeys'[i]].jrai
                /\ quizWords'[i].viet = dictionary.m[quizKeys'[i]].viet
           /\ \A i, j \in 1..Len(quizKeys') :
                i # j => quizKeys'[i] # quizKeys'[j]
           /\ k <= BatchSize
                => {quizKeys'[i] : i \in 1..Len(quizKeys')} = DOMAIN dictionary.m]_vars

\* Six items were drawn from a dictionary of seven entries.
C18_Witness ==
    /\ last.op = "draw"
    /\ Cardinality(DOMAIN dictionary.m) = BatchSize + 1
    /\ Len(quizWords) = BatchSize
    /\ Cardinality({quizKeys[i] : i \in 1..Len(quizKeys)}) = BatchSize

\* C19: after every re-draw (refreshQuiz), from any prior quiz state, a
\* graded test included, every item of the new batch has isTesting = false,
\* status NONE and an empty userInput, and the batch is shown in
\* non-testing mode (isTestingMode = false where the flag exists).
C19_RedrawClears ==
    [][(\/ last'.op = "draw" /\ app' = "running"
        \/ last'.op = "import" /\ last'.ok /\ activeTab = "LEARN"
             /\ app' = "running")
         => /\ \A i \in 1..Len(quizWords') :
                 /\ ~quizWords'[i].isTesting
                 /\ quizWords'[i].status = "none"
                 /\ quizWords'[i].userInput = <<>>
            /\ ~isTestingMode']_vars

\* A batch of two items was drawn over a batch of which both items were
\* graded.
C19_Witness ==
    /\ last.op = "draw"
    /\ last.card = 2
    /\ Len(quizWords) = 2
    /\ \A i \in 1..Len(quizWords) : quizWords[i].status = "none"

\* ------------------------------------------------------------- export claims
\* C20: round trip.  Importing the document that export produced makes the
\* dictionary equal to exactly the set of entries that was exported (the
\* same keys with the same entries), in whatever order the document lists
\* its keys.
C20_RoundTrip ==
    [][(last'.op = "import" /\ download # <<>>)
         => \A i \in 1..Len(reads) :
              (reads' = RemoveAt(reads, i) /\ reads[i] = download[1].text)
                => /\ last'.ok
                   /\ dictionary' = download[1].entries]_vars

\* The export of a dictionary that holds a word of the user's next to the
\* default ones was imported, and the dictionary is the exported one.
C20_Witness ==
    /\ last.op = "import"
    /\ last.ok
    /\ download # <<>>
    /\ dictionary = download[1].entries
    /\ DOMAIN dictionary.m = {S_aba, S_ama, S_ba}
    /\ dictionary.m[S_ba] = Entry(S_ba_acute, S_ma)
    /\ storage = <<JSON_stringify(dictionary, 0)>>

\* The keys under which the dictionary holds an entry the user stored: one
\* that is not the entry of the compiled-in default under that key.
UserKeys(d) ==
    {k \in DOMAIN d.m :
       k \notin DOMAIN DEFAULT_DICTIONARY.m \/ d.m[k] # DEFAULT_DICTIONARY.m[k]}

\* C21: handleExport (v32) serializes exactly the words the user added.
\* Every entry the user stored with add that is still in the dictionary is
\* in the exported document and no entry of the compiled-in default is;
\* when there is no such entry nothing is downloaded and a notice is shown.
C21_ExportsUserWords ==
    [][(last'.op = "export" /\ rev = "v32") =>
         IF UserKeys(dictionary) = {}
         THEN download' = download /\ notice' = "nothingToExport"
         ELSE /\ download' # <<>>
              /\ LET doc == JSON_parse(download'[1].text) IN
                   /\ last'.ok
                   /\ \A k \in UserKeys(dictionary) :
                        k \in DOMAIN doc.m /\ doc.m[k] = dictionary.m[k]
                   /\ \A k \in DOMAIN doc.m :
                        ~(k \in DOMAIN DEFAULT_DICTIONARY.m
                          /\ doc.m[k] = DEFAULT_DICTIONARY.m[k])]_vars

\* C22: in the gated revisions (v14, v15) an export is produced only when
\* the entered key equals the admin secret.  With any other key the export
\* is rejected with a message, and neither the dictionary, the persisted
\* document, the downloaded file nor any other state of the application
\* changes.
C22_ExportGate ==
    [][(last'.op = "export" /\ rev \in {"v14", "v15"}) =>
         IF last'.j = S_JRAI2025
         THEN /\ download' # <<>>
              /\ JSON_parse(download'[1].text) = dictionary
         ELSE /\ notice' = "wrongKey"
              /\ UNCHANGED <<app, dictionary, storage, download, searchQuery,
                             reads, quizWords, quizKeys, isTestingMode,
                             audioVars>>]_vars

\* The secret typed in lower case was rejected while the dictionary held a
\* word of the user's, after an export with the right key had been made.
C22_Witness ==
    /\ last.op = "export"
    /\ rev \in {"v14", "v15"}
    /\ last.j = S_jrai2025
    /\ ~last.ok
    /\ notice = "wrongKey"
    /\ download # <<>>
    /\ download[1].entries # dictionary

\* The letters of a string without their diacritics, and the diacritics
\* without the letters.
BaseLetters(s) == SelectSeq(NFD(s), LAMBDA ch : ch \notin CombiningMarks)
MarksOf(s) == SelectSeq(NFD(s), LAMBDA ch : ch \in CombiningMarks)

\* C23 as stated: normalize of a letter that carries a diacritic differs
\* from normalize of the unmarked letter, so the two do not compare equal
\* in grading: no answer is graded CORRECT whose diacritics are not those
\* of the expected value.
C23_MarkedDiffers ==
    \A i \in 1..Len(quizWords) :
      quizWords[i].status = "correct"
        => MarksOf(quizWords[i].userInput) = MarksOf(Target(quizWords[i]))

\* C23 amended: normalize of a letter that carries a diacritic equals
\* normalize of the unmarked letter, so the two compare equal in grading:
\* a graded answer that differs from the expected value only by its
\* diacritics is CORRECT.
C23_MarksFolded ==
    \A i \in 1..Len(quizWords) :
      (/\ quizWords[i].status # "none"
       /\ BaseLetters(quizWords[i].userInput) = BaseLetters(Target(quizWords[i])))
        => quizWords[i].status = "correct"

\* The answer "Ăba" was graded CORRECT against the expected value "Aba".
C23_Witness ==
    /\ last.op = "check"
    /\ \E i \in 1..Len(quizWords) :
         /\ quizWords[i].userInput = S_Abreve_ba
         /\ Target(quizWords[i]) = S_Aba
         /\ quizWords[i].status = "correct"

\* ------------------------------------------------------------- explanation claims
\* C24: explainWord never propagates an error: for every outcome of the
\* service call it returns the text of the answer or the fixed fallback
\* sentence, so the handleExplain that awaits it completes: it shows what
\* explainWord returned for its word and clears the loading flag.
C24_ExplainCompletes ==
    [][last'.op = "explained" =>
         LET text == IF last'.v = <<"resolved">> THEN ServiceText ELSE Fallback IN
           /\ last'.ok
           /\ aiExplanation' = <<[word |-> last'.j, text |-> text]>>
           /\ loadingAi' = FALSE
           /\ Len(explains') = Len(explains) - 1]_vars

\* A call the service rejected was answered with the fallback sentence and
\* the loading flag is off.
C24_Witness ==
    /\ last.op = "explained"
    /\ last.v = <<"rejected">>
    /\ aiExplanation # <<>>
    /\ aiExplanation[1].text = Fallback
    /\ ~loadingAi
    /\ explains = <<>>

\* ------------------------------------------------------------- decoder claim
\* C25: the decoder maps a payload of 2n bytes to exactly n samples on one
\* channel, sample k being the signed 16-bit little-endian integer formed
\* from bytes 2k and 2k+1 divided by 32768, every sample in [-1, 1); an
\* empty byte buffer yields an empty sample buffer without throwing.
C25_Decoder ==
    [][(last'.op = "decoded" /\ Len(last'.j) % 2 = 0) =>
         LET bytes == last'.j
             samples == last'.v
         IN /\ last'.ok
            /\ Len(samples) = Len(bytes) \div 2
            /\ \A k \in 1..Len(samples) :
                 /\ samples[k].den = 32768
                 /\ samples[k].num \in -32768..32767
                 /\ (samples[k].num - (bytes[2 * k - 1] + 256 * bytes[2 * k]))
                      % 65536 = 0]_vars

C27_FailuresCaught ==
    /\ [](\A c \in Cards : playing[c] => calls[c] # <<>>)
    /\ [][\A c \in Cards :
            /\ Len(calls'[c]) < Len(calls[c]) => ~playing'[c]
            /\ (/\ last'.op = "resume"
                /\ ~last'.ok
                /\ last'.card = Owner(rev, c)
                /\ calls[c] # <<>>)
                 => (calls'[c] = <<>> /\ ~playing'[c])]_vars

\* C28: the busy guard is per WordCard.  A play request on a card is
\* accepted exactly when that card is IDLE, whatever the state of the other
\* cards, and it changes nothing of the other cards; so requests and
\* playbacks of different cards can be in flight at the same time, also in
\* the revision that shares one global audio context.
C28_GuardPerCard ==
    /\ [](app = "running"
           => \A c \in Cards :
                Phase(c) = "IDLE"
                  => ENABLED (PlayClick(c) /\ last'.ok /\ Phase(c)' = "REQUESTING"))
    /\ [][\A c \in Cards :
            (last'.op = "play" /\ last'.card = c)
              => /\ last'.ok <=> Phase(c) = "IDLE"
                 /\ \A d \in Cards \ {c} :
                      playing'[d] = playing[d] /\ calls'[d] = calls[d]]_vars

\* In v14, which shares one audio context, a request on card 2 was accepted
\* while the source of card 1 was playing.
C28_Witness ==
    /\ rev = "v14"
    /\ last.op = "play"
    /\ last.card = 2
    /\ last.ok
    /\ Phase(1) = "PLAYING"
    /\ Phase(2) = "REQUESTING"
    /\ playing[1] /\ playing[2]

\* C29: for every interleaving of explanation requests, their responses,
\* tab switches and close actions, the loading indicator is on exactly
\* while some explanation request is outstanding; once no request is
\* outstanding the explanation shown belongs to the most recently requested
\* word; and after a tab switch or a close the explanation stays cleared
\* until a new explanation is requested (none can be on a tab other than
\* SEARCH, nor by a response to a request made before the close).
C29_ExplainInterleavings ==
    /\ [](app = "running" => (loadingAi <=> explains # <<>>))
    /\ [](app = "running" /\ activeTab # "SEARCH" => aiExplanation = <<>>)
    /\ [][(last'.op = "explained" /\ explains' = <<>> /\ aiExplanation' # <<>>)
            => explains[last'.card].newest]_vars
    /\ [][(last.op \in {"close", "tab"} /\ last'.op = "explained")
            => aiExplanation' = <<>>]_vars

\* ------------------------------------------------------------- answer edit claim
\* C30: editing the answer of quiz item i sets that item's userInput to the
\* typed value and its status to NONE, and changes no other field of that
\* item and no other item of the batch; consequently no item ever shows
\* CORRECT or WRONG for an input other than the one that was graded: an
\* item has a grade after a step only if its input is the one it had
\* before the step, and the grade is the one it had or the step graded it.
C30_EditAnswer ==
    /\ [][last'.op = "type" =>
            LET i == last'.card IN
              /\ i \in 1..Len(quizWords)
              /\ quizWords' = [quizWords EXCEPT
                                 ![i] = [@ EXCEPT !.userInput = last'.j,
                                                  !.status = "none"]]
              /\ UNCHANGED <<quizKeys, isTestingMode, activeTab>>]_vars
    /\ [][\A i \in 1..Len(quizWords') :
            quizWords'[i].status # "none"
              => /\ i <= Len(quizWords)
                 /\ quizWords'[i].userInput = quizWords[i].userInput
                 /\ quizWords'[i].status = quizWords[i].status
                      \/ last'.op = "check"]_vars

\* The answer of an item graded WRONG was edited: the item shows no grade
\* for the new input, and another item keeps its grade.
C30_Witness ==
    /\ last.op = "type"
    /\ last.v = <<"wrong">>
    /\ quizWords[last.card].userInput = last.j
    /\ quizWords[last.card].status = "none"
    /\ \E j \in 1..Len(quizWords) : j # last.card /\ quizWords[j].status # "none"

====
